---- MODULE Spec2Model ----
(***************************************************************************)
(* A model of the synchronization primitives of this repository:           *)
(*   - BinarySemaphore (src/src/semaphore/binary_semaphore.rs) and the     *)
(*     Mutex built on it (src/src/mutex.rs),                               *)
(*   - the counting Semaphore (src/src/semaphore.rs),                      *)
(*   - the two-pointer Queue (src/src/queue_based_lock.rs),                *)
(*   - the List whose mutators hold a BinarySemaphore permit and whose     *)
(*     readers hold none (src/src/rcu.rs).                                 *)
(* Every atomic operation of the code is one step of the thread that       *)
(* performs it, and all threads see the steps in one order (the memory     *)
(* orderings the code names are not modelled as weaker than that);         *)
(* atomic_wait's wait/wake_one are modelled as a futex: wait parks the     *)
(* caller only if the word still holds the expected value, and a parked    *)
(* thread resumes on wake_one or spuriously. Nodes live at addresses the   *)
(* allocator hands out and takes back; a freed node reads as anything.     *)
(***************************************************************************)
EXTENDS Integers, Sequences, FiniteSets, TLC

\* ------------------------------------------------------------------ bounds
\* Threads sharing one BinarySemaphore / Mutex.
NumThreads == 3
\* Iterations of the lock / increment / unlock loop of each thread.
Rounds == 2
\* Cap on lock_contended's spin counter (the code spins up to 100 times).
MaxSpin == 1
\* Semaphore::new(MaxPermits), shared by NumSemThreads threads.
MaxPermits == 2
NumSemThreads == 3
\* Width in bits of the model's atomic words.
WordBits == 16
\* Threads that use the Queue, addresses the allocator can hand out for its
\* nodes, and the number of elements pushed in a run.
NumQThreads == 2
MaxNodes == 3
MaxPush == 4

\* ------------------------------------------------------------ BinarySemaphore
\* The semaphore's own concurrency test: each thread takes the permit once.
TestAquires == 1
\* The threads of the List's concurrency tests.
NUM_THREADS == 2
\* The three values of BinarySemaphore::state.
Free == 2
HeldQuiet == 1
HeldBusy == 0

VARIABLES
    bin_state,   \* BinarySemaphore::state
    value,       \* Mutex::value, the protected counter
    pc,          \* position of each thread in the mutex test loop
    spin_count,  \* lock_contended's local spin_count
    tmp,         \* the value read by `*guard += 1` before it is written back
    iter         \* iterations each thread has still to run

\* The counting Semaphore and the threads that use it.
VARIABLES
    sem_state,   \* Semaphore::state
    spc,         \* position of each thread in aquire / aquire_n / drop
    via,         \* the call each thread is in: "aquire" or "aquire_n"
    req,         \* the n of that call (1 for aquire)
    s,           \* the local s of aquire / aquire_n
    permit       \* Permit::state of the Permit each thread holds, 0 if none

\* The Queue, the heap its nodes live in, and the threads that use it.
\* Addresses are 1..MaxNodes, 0 is the null pointer / None.
VARIABLES
    head,        \* Queue::head
    tail,        \* Queue::tail
    allocd,      \* addresses of the live (allocated, not yet freed) nodes
    node_elem,   \* Node::elem by address
    node_next,   \* Node::next by address (0 for None)
    qpc,         \* position of each thread in push / pop
    new_tail,    \* push: the node being added
    current,     \* push: current_tail; pop: current_head
    new_head,    \* pop: the next pointer read from current_head
    ret,         \* the result of each thread's last pop (0 for None)
    uaf,         \* a freed node has been read or written
    pushed,      \* history: number of push calls so far (element k is k)
    owner,       \* history: the thread that pushed each element not yet
                 \* returned (0 for the others)
    fifo,        \* history: the elements added and not yet returned, in the
                 \* order their exchanges on tail succeeded
    expect,      \* history: the oldest of them at each thread's last pop
    refilled     \* history: a push has completed on a drained queue

\* The rcu List, the heap its nodes live in, the threads that call
\* push_front / pop_front (holding the permit of List::semaphore, which is
\* bin_state) and one reader that formats the list without a permit.
VARIABLES
    list_head,       \* List::head
    list_len,        \* List::len
    list_alloc,      \* addresses of the live List nodes
    list_elem,       \* Node::elem by address
    list_next,       \* Node::next by address
    lpc,             \* position of each thread inside push_front / pop_front
    l_new_head,      \* push_front: new_head (x once it is a raw pointer);
                     \* pop_front: new_head
    l_current_head,  \* push_front: current_head; pop_front: current_head,
                     \* which old_head owns
    list_ret,        \* the result of each thread's last pop_front (0: None)
    rpc,             \* position of the reader inside Debug::fmt
    r_current,       \* fmt: current
    r_v,             \* fmt: the elements collected in v
    r_dangling,      \* the node current points to has been freed
    list_uaf,        \* a freed List node has been read
    list_pushed,     \* history: number of push_front calls (element k is k)
    lifo,            \* history: the elements a LIFO sequence would hold
    list_expect,     \* history: what it gave at each thread's last pop_front
    replaced,        \* history: the head value each live node replaced
    popcalled,       \* history: pop_front has been called
    r_snap           \* history: lifo when the reader loaded head

bvars == <<bin_state, value, pc, spin_count, tmp, iter>>
svars == <<sem_state, spc, via, req, s, permit>>
qvars == <<head, tail, allocd, node_elem, node_next, qpc, new_tail, current,
           new_head, ret, uaf, pushed, owner, fifo, expect, refilled>>

lvars == <<list_head, list_len, list_alloc, list_elem, list_next, lpc,
           l_new_head, l_current_head, list_ret, rpc, r_current, r_v,
           r_dangling, list_uaf, list_pushed, lifo, list_expect, replaced,
           popcalled, r_snap>>

vars == <<bvars, svars, qvars, lvars>>

Threads == 1..NumThreads

\* A thread that owns a BinaryPermit (a MutexGuard): aquire has returned and
\* the permit's drop has not yet swapped the state back.
Holding(t) == pc[t] \in {"locked", "write", "drop"}

\* Threads parked inside wait(state, 0).
Parked == {t \in Threads : pc[t] = "parked"}

\* BinarySemaphore::new / Mutex::new(0), every thread about to call lock
\* with m iterations to run.
InitBin(m) ==
    /\ bin_state = Free
    /\ value = 0
    /\ pc = [t \in Threads |-> "start"]
    /\ spin_count = [t \in Threads |-> 0]
    /\ tmp = [t \in Threads |-> 0]
    /\ iter = [t \in Threads |-> m]

\* A compare_exchange that also succeeds on the held-quiet value.
CasFree_NotBusy(st) == st # HeldBusy

\* state.compare_exchange(2, 1, Acquire, Relaxed).is_ok()
CasFree(st) == st = Free

\* Mutex::lock takes its permit from the semaphore (mutex.rs spells the call
\* `wait()`; aquire is the one method that returns a BinaryPermit):
\* BinarySemaphore::aquire, fast path.
aquire(t) ==
    /\ pc[t] = "start"
    /\ IF CasFree(bin_state)
         THEN /\ bin_state' = HeldQuiet
              /\ pc' = [pc EXCEPT ![t] = "locked"]
              /\ spin_count' = spin_count
         ELSE /\ bin_state' = bin_state
              /\ pc' = [pc EXCEPT ![t] = "spin"]
              /\ spin_count' = [spin_count EXCEPT ![t] = 0]
    /\ UNCHANGED <<svars, qvars, lvars, value, tmp, iter>>

\* lock_contended: while state.load() == 1 && spin_count < 100 { spin_count += 1 }
\* (spin_count is dead once the loop is left and is cleared).
lock_contended_spin(t) ==
    /\ pc[t] = "spin"
    /\ IF bin_state = HeldQuiet /\ spin_count[t] < MaxSpin
         THEN /\ spin_count' = [spin_count EXCEPT ![t] = @ + 1]
              /\ pc' = pc
         ELSE /\ spin_count' = [spin_count EXCEPT ![t] = 0]
              /\ pc' = [pc EXCEPT ![t] = "retry"]
    /\ UNCHANGED <<svars, qvars, lvars, bin_state, value, tmp, iter>>

\* lock_contended: if state.compare_exchange(2, 1).is_ok() { return }
lock_contended_cas(t) ==
    /\ pc[t] = "retry"
    /\ IF CasFree(bin_state)
         THEN /\ bin_state' = HeldQuiet
              /\ pc' = [pc EXCEPT ![t] = "locked"]
         ELSE /\ bin_state' = bin_state
              /\ pc' = [pc EXCEPT ![t] = "swap"]
    /\ UNCHANGED <<svars, qvars, lvars, value, spin_count, tmp, iter>>

\* A blocking loop that ends on any value but 0.
SwapTookPermit_NotBusy(old) == old # HeldBusy

\* The test of lock_contended's blocking loop on the value swap returned:
\* the loop ends (the permit is taken) when the old value was 2.
SwapTookPermit(old) == old = Free

\* lock_contended: while state.swap(0, Acquire) != 2 { ... }
lock_contended_swap(t) ==
    /\ pc[t] = "swap"
    /\ bin_state' = HeldBusy
    /\ pc' = [pc EXCEPT ![t] = IF SwapTookPermit(bin_state) THEN "locked" ELSE "wait"]
    /\ UNCHANGED <<svars, qvars, lvars, value, spin_count, tmp, iter>>

\* lock_contended: wait(state, 0) parks only while the word still reads 0.
lock_contended_wait(t) ==
    /\ pc[t] = "wait"
    /\ pc' = [pc EXCEPT ![t] = IF bin_state = HeldBusy THEN "parked" ELSE "swap"]
    /\ UNCHANGED <<svars, qvars, lvars, bin_state, value, spin_count, tmp, iter>>

\* wait may return without a wake; the caller goes back to its swap.
SpuriousWake(t) ==
    /\ pc[t] = "parked"
    /\ pc' = [pc EXCEPT ![t] = "swap"]
    /\ UNCHANGED <<svars, qvars, lvars, bin_state, value, spin_count, tmp, iter>>

\* `*guard += 1`: DerefMut, then the read of the protected value ...
MutexRead(t) ==
    /\ pc[t] = "locked"
    /\ tmp' = [tmp EXCEPT ![t] = value]
    /\ pc' = [pc EXCEPT ![t] = "write"]
    /\ UNCHANGED <<svars, qvars, lvars, bin_state, value, spin_count, iter>>

\* ... and the write of the incremented value (the read value is dead after).
MutexWrite(t) ==
    /\ pc[t] = "write"
    /\ value' = tmp[t] + 1
    /\ tmp' = [tmp EXCEPT ![t] = 0]
    /\ pc' = [pc EXCEPT ![t] = "drop"]
    /\ UNCHANGED <<svars, qvars, lvars, bin_state, spin_count, iter>>

\* Where a thread goes once its guard is gone: the next iteration or the end.
EndOfRound(t) == IF iter[t] = 1 THEN "done" ELSE "start"

\* A drop that compares the swapped-out state with the wrong held value.
DropMustWake_Quiet(old) == old = HeldQuiet

\* A drop that never wakes.
DropMustWake_Never(old) == FALSE

\* Drop for BinaryPermit: whether the swapped-out state asks for a wake.
DropMustWake(old) == old = HeldBusy

\* Drop for BinaryPermit: if state.swap(2, Release) == 0 { wake_one }
BinaryPermitDrop(t) ==
    /\ pc[t] = "drop"
    /\ bin_state' = Free
    /\ IF DropMustWake(bin_state)
         THEN /\ pc' = [pc EXCEPT ![t] = "wake"]
              /\ iter' = iter
         ELSE /\ pc' = [pc EXCEPT ![t] = EndOfRound(t)]
              /\ iter' = [iter EXCEPT ![t] = @ - 1]
    /\ UNCHANGED <<svars, qvars, lvars, value, spin_count, tmp>>

\* wake_one(&state): resumes one parked thread, or nothing if none is parked.
BinaryPermitWake(t) ==
    /\ pc[t] = "wake"
    /\ IF Parked = {}
         THEN pc' = [pc EXCEPT ![t] = EndOfRound(t)]
         ELSE \E w \in Parked :
                pc' = [pc EXCEPT ![t] = EndOfRound(t), ![w] = "swap"]
    /\ iter' = [iter EXCEPT ![t] = @ - 1]
    /\ UNCHANGED <<svars, qvars, lvars, bin_state, value, spin_count, tmp>>

\* BinarySemaphore::get_count
get_count == IF bin_state = Free THEN 1 ELSE 0

\* The semaphore's own concurrency test holds the permit over
\* std::hint::black_box(&semaphore) and releases it.
SemaphoreTestBody(t) ==
    /\ pc[t] = "locked"
    /\ pc' = [pc EXCEPT ![t] = "drop"]
    /\ UNCHANGED <<svars, qvars, lvars, bin_state, value, spin_count, tmp, iter>>

\* One step of thread t's own code in the mutex test.
BinThread(t) ==
    \/ aquire(t)
    \/ lock_contended_spin(t)
    \/ lock_contended_cas(t)
    \/ lock_contended_swap(t)
    \/ lock_contended_wait(t)
    \/ MutexRead(t)
    \/ MutexWrite(t)
    \/ BinaryPermitDrop(t)
    \/ BinaryPermitWake(t)

NextBin == \E t \in Threads : BinThread(t) \/ SpuriousWake(t)

\* One step of thread t's own code in the semaphore's test.
BinSemThread(t) ==
    \/ aquire(t)
    \/ lock_contended_spin(t)
    \/ lock_contended_cas(t)
    \/ lock_contended_swap(t)
    \/ lock_contended_wait(t)
    \/ SemaphoreTestBody(t)
    \/ BinaryPermitDrop(t)
    \/ BinaryPermitWake(t)

NextBinSem == \E t \in Threads : BinSemThread(t) \/ SpuriousWake(t)


\* ------------------------------------------------------------------ Semaphore
SemThreads == 1..NumSemThreads

\* AtomicU32 arithmetic wraps; the word is modelled WordBits wide (the model
\* checker's own integers are 32 bits wide).
U32 == 2 ^ WordBits
U32Add(a, b) == (a + b) % U32
U32Sub(a, b) == (a - b + U32) % U32

\* Threads parked inside wait(&self.state, _).
SemParked == {t \in SemThreads : spc[t] \in {"a_parked", "n_parked"}}

\* Semaphore::new(MaxPermits), no thread has called yet.
InitSem ==
    /\ sem_state = MaxPermits
    /\ spc = [t \in SemThreads |-> "idle"]
    /\ via = [t \in SemThreads |-> "none"]
    /\ req = [t \in SemThreads |-> 0]
    /\ s = [t \in SemThreads |-> 0]
    /\ permit = [t \in SemThreads |-> 0]

\* Semaphore::aquire: let mut s = self.state.load(Relaxed);
aquire_call(t) ==
    /\ spc[t] = "idle"
    /\ via' = [via EXCEPT ![t] = "aquire"]
    /\ req' = [req EXCEPT ![t] = 1]
    /\ s' = [s EXCEPT ![t] = sem_state]
    /\ spc' = [spc EXCEPT ![t] = "a_loop"]
    /\ UNCHANGED <<bvars, qvars, lvars, sem_state, permit>>

\* Semaphore::aquire, `if s == 0 { while ... }` at the end of the loop body.
AquireAfterCas(sv) == IF sv = 0 THEN "a_inner" ELSE "a_loop"

\* Semaphore::aquire, top of the loop: `if s > 0 { compare_exchange_weak(s, s - 1) }`
\* (the weak exchange may fail although the state equals s), else the
\* `if s == 0` branch is entered. The local s is dead once the call returns
\* and is cleared.
aquire_loop(t) ==
    /\ spc[t] = "a_loop"
    /\ IF s[t] > 0
         THEN \/ /\ sem_state = s[t]
                 /\ sem_state' = U32Sub(s[t], 1)
                 /\ permit' = [permit EXCEPT ![t] = 1]
                 /\ spc' = [spc EXCEPT ![t] = "s_holding"]
                 /\ s' = [s EXCEPT ![t] = 0]
              \/ /\ s' = [s EXCEPT ![t] = sem_state]
                 /\ spc' = [spc EXCEPT ![t] = AquireAfterCas(sem_state)]
                 /\ UNCHANGED <<sem_state, permit>>
         ELSE /\ spc' = [spc EXCEPT ![t] = "a_inner"]
              /\ UNCHANGED <<sem_state, permit, s>>
    /\ UNCHANGED <<bvars, qvars, lvars, via, req>>

\* Semaphore::aquire: `while self.state.load(Relaxed) == 0 { wait }`; when the
\* load is not 0 the while ends and the outer loop starts over, s untouched.
aquire_inner(t) ==
    /\ spc[t] = "a_inner"
    /\ spc' = [spc EXCEPT ![t] = IF sem_state = 0 THEN "a_wait" ELSE "a_loop"]
    /\ UNCHANGED <<bvars, qvars, lvars, sem_state, via, req, s, permit>>

\* Semaphore::aquire: wait(&self.state, 0)
aquire_wait(t) ==
    /\ spc[t] = "a_wait"
    /\ spc' = [spc EXCEPT ![t] = IF sem_state = 0 THEN "a_parked" ELSE "a_inner"]
    /\ UNCHANGED <<bvars, qvars, lvars, sem_state, via, req, s, permit>>

\* A request that asks for as much as the maximum plus one passes.
AssertPermits_OffByOne(n) == n <= MaxPermits + 1

\* Semaphore::aquire_n: assert!(n <= self.max_permits, ...)
AssertPermits(n) == n <= MaxPermits

\* Semaphore::aquire_n: the assertion, then let mut s = self.state.load(Relaxed);
aquire_n_call(t, n) ==
    /\ spc[t] = "idle"
    /\ via' = [via EXCEPT ![t] = "aquire_n"]
    /\ req' = [req EXCEPT ![t] = n]
    /\ IF AssertPermits(n)
         THEN /\ s' = [s EXCEPT ![t] = sem_state]
              /\ spc' = [spc EXCEPT ![t] = "n_loop"]
         ELSE /\ s' = s
              /\ spc' = [spc EXCEPT ![t] = "panicked"]
    /\ UNCHANGED <<bvars, qvars, lvars, sem_state, permit>>

\* A guard copied from aquire: any positive count is enough.
CanTake_Positive(sv, n) == sv > 0

\* Semaphore::aquire_n: `if s >= n`
CanTake(sv, n) == sv >= n

\* Semaphore::aquire_n, `if s < n { wait ... }` at the end of the loop body.
AquireNAfterCas(sv, n) == IF sv < n THEN "n_wait" ELSE "n_loop"

\* Semaphore::aquire_n, top of the loop:
\* `if s >= n { compare_exchange_weak(s, s - n) }`, else the `if s < n` branch.
aquire_n_loop(t) ==
    /\ spc[t] = "n_loop"
    /\ IF CanTake(s[t], req[t])
         THEN \/ /\ sem_state = s[t]
                 /\ sem_state' = U32Sub(s[t], req[t])
                 /\ permit' = [permit EXCEPT ![t] = req[t]]
                 /\ spc' = [spc EXCEPT ![t] = "s_holding"]
                 /\ s' = [s EXCEPT ![t] = 0]
              \/ /\ s' = [s EXCEPT ![t] = sem_state]
                 /\ spc' = [spc EXCEPT ![t] = AquireNAfterCas(sem_state, req[t])]
                 /\ UNCHANGED <<sem_state, permit>>
         ELSE /\ spc' = [spc EXCEPT ![t] = "n_wait"]
              /\ UNCHANGED <<sem_state, permit, s>>
    /\ UNCHANGED <<bvars, qvars, lvars, via, req>>

\* Semaphore::aquire_n: wait(&self.state, s)
aquire_n_wait(t) ==
    /\ spc[t] = "n_wait"
    /\ spc' = [spc EXCEPT ![t] = IF sem_state = s[t] THEN "n_parked" ELSE "n_reload"]
    /\ UNCHANGED <<bvars, qvars, lvars, sem_state, via, req, s, permit>>

\* Semaphore::aquire_n: s = self.state.load(Relaxed); after wait has returned
aquire_n_reload(t) ==
    /\ spc[t] = "n_reload"
    /\ s' = [s EXCEPT ![t] = sem_state]
    /\ spc' = [spc EXCEPT ![t] = "n_loop"]
    /\ UNCHANGED <<bvars, qvars, lvars, sem_state, via, req, permit>>

\* wait may return without a wake.
SemSpuriousWake(t) ==
    /\ spc[t] \in {"a_parked", "n_parked"}
    /\ spc' = [spc EXCEPT ![t] = IF spc[t] = "a_parked" THEN "a_inner" ELSE "n_reload"]
    /\ UNCHANGED <<bvars, qvars, lvars, sem_state, via, req, s, permit>>

\* Where a thread parked in wait resumes.
Resumed(w) == IF spc[w] = "a_parked" THEN "a_inner" ELSE "n_reload"

\* Drop for Permit: self.semaphore.state.fetch_add(self.state, Release);
PermitDrop(t) ==
    /\ spc[t] = "s_holding"
    /\ sem_state' = U32Add(sem_state, permit[t])
    /\ permit' = [permit EXCEPT ![t] = 0]
    /\ spc' = [spc EXCEPT ![t] = "s_wake"]
    /\ UNCHANGED <<bvars, qvars, lvars, via, req, s>>

\* A drop that forgets wake_one.
PermitWake_Skip(t) ==
    /\ spc[t] = "s_wake"
    /\ spc' = [spc EXCEPT ![t] = "s_done"]
    /\ via' = [via EXCEPT ![t] = "none"]
    /\ req' = [req EXCEPT ![t] = 0]
    /\ UNCHANGED <<bvars, qvars, lvars, sem_state, s, permit>>

\* Drop for Permit: wake_one(&self.semaphore.state); the call and its Permit
\* are over.
PermitWake(t) ==
    /\ spc[t] = "s_wake"
    /\ IF SemParked = {}
         THEN spc' = [spc EXCEPT ![t] = "s_done"]
         ELSE \E w \in SemParked :
                spc' = [spc EXCEPT ![t] = "s_done", ![w] = Resumed(w)]
    /\ via' = [via EXCEPT ![t] = "none"]
    /\ req' = [req EXCEPT ![t] = 0]
    /\ UNCHANGED <<bvars, qvars, lvars, sem_state, s, permit>>

\* Semaphore::get_count
sem_get_count == sem_state

\* One step of thread t's own code once it has called.
SemThread(t) ==
    \/ aquire_loop(t)
    \/ aquire_inner(t)
    \/ aquire_wait(t)
    \/ aquire_n_loop(t)
    \/ aquire_n_wait(t)
    \/ aquire_n_reload(t)
    \/ PermitDrop(t)
    \/ PermitWake(t)

\* Each thread calls aquire() or aquire_n(n) once, with any n up to one more
\* than the maximum, and drops the Permit it gets.
NextSem ==
    \E t \in SemThreads :
        \/ aquire_call(t)
        \/ \E n \in 0..(MaxPermits + 1) : aquire_n_call(t, n)
        \/ SemThread(t)
        \/ SemSpuriousWake(t)

\* One step of thread t's own code when only aquire_n is used.
SemNThread(t) ==
    \/ aquire_n_loop(t)
    \/ aquire_n_wait(t)
    \/ aquire_n_reload(t)
    \/ PermitDrop(t)
    \/ PermitWake(t)

\* Each thread calls aquire_n(n) once with 1 <= n <= max_permits and drops
\* the Permit (the concurrency test of the Semaphore).
NextSemN ==
    \E t \in SemThreads :
        \/ \E n \in 1..MaxPermits : aquire_n_call(t, n)
        \/ SemNThread(t)
        \/ SemSpuriousWake(t)

\* ---------------------------------------------------------------------- Queue
QThreads == 1..NumQThreads
Addrs == 1..MaxNodes

\* No push or pop is in flight.
QIdle == \A t \in QThreads : qpc[t] = "idle"

\* Queue::new
InitQueue ==
    /\ head = 0
    /\ tail = 0
    /\ allocd = {}
    /\ node_elem = [a \in Addrs |-> 0]
    /\ node_next = [a \in Addrs |-> 0]
    /\ qpc = [t \in QThreads |-> "idle"]
    /\ new_tail = [t \in QThreads |-> 0]
    /\ current = [t \in QThreads |-> 0]
    /\ new_head = [t \in QThreads |-> 0]
    /\ ret = [t \in QThreads |-> 0]
    /\ uaf = FALSE
    /\ pushed = 0
    /\ owner = [e \in 1..MaxPush |-> 0]
    /\ fifo = <<>>
    /\ expect = [t \in QThreads |-> 0]
    /\ refilled = FALSE

\* The history of a push whose exchange on tail succeeds: that exchange
\* decides its place, so its element joins the FIFO sequence here.
PushOrdered(t) ==
    /\ fifo' = Append(fifo, node_elem[new_tail[t]])
    /\ refilled' = (refilled \/ (fifo = <<>> /\ pushed > 1))
    /\ UNCHANGED <<pushed, owner, expect>>

\* The history of a pop that returns: what it returned leaves the FIFO
\* sequence, whose oldest element (None when it is empty) is what a FIFO
\* sequence would have returned.
PopReturns(t) ==
    /\ expect' = [expect EXCEPT ![t] = IF fifo = <<>> THEN 0 ELSE Head(fifo)]
    /\ fifo' = LET Stays(e) == e # ret'[t] IN SelectSeq(fifo, Stays)
    /\ owner' = [e \in 1..MaxPush |-> IF e = ret'[t] THEN 0 ELSE owner[e]]
    /\ UNCHANGED <<pushed, refilled>>

\* Queue::push: Box::into_raw(Box::new(Node { elem, next: None })) at any
\* address the allocator has free.
push_alloc(t) ==
    /\ qpc[t] = "idle"
    /\ pushed < MaxPush
    /\ \E a \in Addrs \ allocd :
         /\ allocd' = allocd \cup {a}
         /\ node_elem' = [node_elem EXCEPT ![a] = pushed + 1]
         /\ node_next' = [node_next EXCEPT ![a] = 0]
         /\ new_tail' = [new_tail EXCEPT ![t] = a]
    /\ pushed' = pushed + 1
    /\ owner' = [owner EXCEPT ![pushed + 1] = t]
    /\ qpc' = [qpc EXCEPT ![t] = "push_load"]
    /\ UNCHANGED <<bvars, svars, lvars, head, tail, current, new_head, ret, uaf,
                   fifo, expect, refilled>>

\* Queue::push: let mut current_tail = self.tail.load(Relaxed);
push_load(t) ==
    /\ qpc[t] = "push_load"
    /\ current' = [current EXCEPT ![t] = tail]
    /\ qpc' = [qpc EXCEPT ![t] = "push_cas"]
    /\ UNCHANGED <<bvars, svars, lvars, head, tail, allocd, node_elem, node_next,
                   new_tail, new_head, ret, uaf, pushed, owner, fifo, expect, refilled>>

\* A push that always takes the branch for a non-null tail.
TailIsNull_Never(p) == FALSE

\* Queue::push: if current_tail.is_null()
TailIsNull(p) == p = 0

\* An exchange that does not compare.
CasSucceeds_Blind(cur, tl) == TRUE

\* compare_exchange_weak(current_tail, ..) can succeed only while tail still
\* is current_tail.
CasSucceeds(cur, tl) == cur = tl

\* Queue::push: self.tail.compare_exchange_weak(current_tail, new_tail), in
\* the null and in the non-null branch; Err(e) => current_tail = e, also when
\* the weak exchange fails although tail equals current_tail.
push_cas(t) ==
    /\ qpc[t] = "push_cas"
    /\ \/ /\ CasSucceeds(current[t], tail)
          /\ tail' = new_tail[t]
          /\ qpc' = [qpc EXCEPT ![t] =
                       IF TailIsNull(current[t]) THEN "push_head" ELSE "push_link"]
          /\ current' = current
          /\ PushOrdered(t)
       \/ /\ current' = [current EXCEPT ![t] = tail]
          /\ UNCHANGED <<tail, qpc, pushed, owner, fifo, expect, refilled>>
    /\ UNCHANGED <<bvars, svars, lvars, head, allocd, node_elem, node_next, new_tail,
                   new_head, ret, uaf>>

\* Queue::push, tail was null: self.head.store(new_tail, Relaxed); break
push_head(t) ==
    /\ qpc[t] = "push_head"
    /\ head' = new_tail[t]
    /\ qpc' = [qpc EXCEPT ![t] = "idle"]
    /\ UNCHANGED <<pushed, owner, fifo, expect, refilled>>
    /\ new_tail' = [new_tail EXCEPT ![t] = 0]
    /\ current' = [current EXCEPT ![t] = 0]
    /\ UNCHANGED <<bvars, svars, lvars, tail, allocd, node_elem, node_next, new_head,
                   ret, uaf>>

\* Queue::push, tail was a node: (*ptr).next = Some(new_tail); break. The
\* write lands in whatever node lives at ptr; it is a use after free when
\* the old tail has been freed.
push_link(t) ==
    /\ qpc[t] = "push_link"
    /\ node_next' = IF current[t] \in allocd
                      THEN [node_next EXCEPT ![current[t]] = new_tail[t]]
                      ELSE node_next
    /\ uaf' = (uaf \/ current[t] \notin allocd)
    /\ qpc' = [qpc EXCEPT ![t] = "idle"]
    /\ UNCHANGED <<pushed, owner, fifo, expect, refilled>>
    /\ new_tail' = [new_tail EXCEPT ![t] = 0]
    /\ current' = [current EXCEPT ![t] = 0]
    /\ UNCHANGED <<bvars, svars, lvars, head, tail, allocd, node_elem, new_head, ret>>

\* Queue::pop: let mut current_head = self.head.load(Relaxed);
\* if current_head.is_null() { None }
pop_load(t) ==
    /\ qpc[t] = "idle"
    /\ IF head = 0
         THEN /\ ret' = [ret EXCEPT ![t] = 0]
              /\ PopReturns(t)
              /\ UNCHANGED <<qpc, current>>
         ELSE /\ current' = [current EXCEPT ![t] = head]
              /\ qpc' = [qpc EXCEPT ![t] = "pop_next"]
              /\ UNCHANGED <<ret, pushed, owner, fifo, expect, refilled>>
    /\ UNCHANGED <<bvars, svars, lvars, head, tail, allocd, node_elem, node_next,
                   new_tail, new_head, uaf>>

\* Queue::pop: (*current_head).next.map(|p| p.as_ptr()).unwrap_or(null_mut());
\* a freed node reads as anything.
pop_next(t) ==
    /\ qpc[t] = "pop_next"
    /\ \E n \in (IF current[t] \in allocd THEN {node_next[current[t]]} ELSE 0..MaxNodes) :
         new_head' = [new_head EXCEPT ![t] = n]
    /\ uaf' = (uaf \/ current[t] \notin allocd)
    /\ qpc' = [qpc EXCEPT ![t] = "pop_cas"]
    /\ UNCHANGED <<bvars, svars, lvars, head, tail, allocd, node_elem, node_next,
                   new_tail, current, ret, pushed, owner, fifo, expect, refilled>>

\* Queue::pop: self.head.compare_exchange(current_head, next); Err(_) => None
pop_cas(t) ==
    /\ qpc[t] = "pop_cas"
    /\ IF head = current[t]
         THEN /\ head' = new_head[t]
              /\ qpc' = [qpc EXCEPT ![t] = "pop_check"]
              /\ UNCHANGED <<ret, current, pushed, owner, fifo, expect, refilled>>
         ELSE /\ head' = head
              /\ qpc' = [qpc EXCEPT ![t] = "idle"]
              /\ ret' = [ret EXCEPT ![t] = 0]
              /\ current' = [current EXCEPT ![t] = 0]
              /\ PopReturns(t)
    /\ new_head' = [new_head EXCEPT ![t] = 0]
    /\ UNCHANGED <<bvars, svars, lvars, tail, allocd, node_elem, node_next, new_tail, uaf>>

\* A pop that never looks at tail.
PopClosesTail_Never(n) == FALSE

\* Queue::pop: if (*old_head).next.is_none()
PopClosesTail(n) == n = 0

\* Queue::pop, Ok(old_head): the test of (*old_head).next.
pop_check(t) ==
    /\ qpc[t] = "pop_check"
    /\ \E n \in (IF current[t] \in allocd THEN {node_next[current[t]]} ELSE 0..MaxNodes) :
         qpc' = [qpc EXCEPT ![t] = IF PopClosesTail(n) THEN "pop_tail" ELSE "pop_free"]
    /\ uaf' = (uaf \/ current[t] \notin allocd)
    /\ UNCHANGED <<bvars, svars, lvars, head, tail, allocd, node_elem, node_next,
                   new_tail, current, new_head, ret, pushed, owner, fifo, expect, refilled>>

\* Queue::pop: let _ = self.tail.compare_exchange(current_head, null_mut());
pop_tail(t) ==
    /\ qpc[t] = "pop_tail"
    /\ tail' = IF tail = current[t] THEN 0 ELSE tail
    /\ qpc' = [qpc EXCEPT ![t] = "pop_free"]
    /\ UNCHANGED <<bvars, svars, lvars, head, allocd, node_elem, node_next, new_tail,
                   current, new_head, ret, uaf, pushed, owner, fifo, expect, refilled>>

\* Queue::pop: Some(Box::from_raw(old_head).elem): the element is moved out
\* and the node is freed (a second free of the address is a use after free).
pop_free(t) ==
    /\ qpc[t] = "pop_free"
    /\ \E e \in (IF current[t] \in allocd THEN {node_elem[current[t]]} ELSE 0..MaxPush) :
         ret' = [ret EXCEPT ![t] = e]
    /\ uaf' = (uaf \/ current[t] \notin allocd)
    /\ allocd' = allocd \ {current[t]}
    /\ node_elem' = [node_elem EXCEPT ![current[t]] = 0]
    /\ node_next' = [node_next EXCEPT ![current[t]] = 0]
    /\ qpc' = [qpc EXCEPT ![t] = "idle"]
    /\ current' = [current EXCEPT ![t] = 0]
    /\ PopReturns(t)
    /\ UNCHANGED <<bvars, svars, lvars, head, tail, new_tail, new_head>>

\* One step of a push or pop that thread t has begun.
QueueStep(t) ==
    \/ push_load(t)
    \/ push_cas(t)
    \/ push_head(t)
    \/ push_link(t)
    \/ pop_next(t)
    \/ pop_cas(t)
    \/ pop_check(t)
    \/ pop_tail(t)
    \/ pop_free(t)

\* A call of push that overlaps no other operation.
push_seq(t) == QIdle /\ push_alloc(t)

\* A call of pop that overlaps no other operation.
pop_seq(t) == QIdle /\ pop_load(t)

\* push and pop called by one thread at a time.
NextQueueSeq ==
    \E t \in QThreads : push_seq(t) \/ pop_seq(t) \/ QueueStep(t)

\* No pop is in flight.
NoPop ==
    \A t \in QThreads :
        qpc[t] \notin {"pop_next", "pop_cas", "pop_check", "pop_tail", "pop_free"}

\* A call of push that may overlap other pushes, made before any pop has
\* taken an element and while no pop is in flight.
push_conc(t) == Cardinality(allocd) = pushed /\ NoPop /\ push_alloc(t)

\* Pushes by all threads at once, then pops one at a time after every push
\* has returned, as in the test push_from_multiple_threads.
NextQueuePushThenPop ==
    \E t \in QThreads : push_conc(t) \/ pop_seq(t) \/ QueueStep(t)

\* A call of pop made while no other pop is in flight.
pop_alone(t) == NoPop /\ pop_load(t)

\* push called by any thread at any time, pop by one thread at a time.
NextQueueOnePop ==
    \E t \in QThreads : push_alloc(t) \/ pop_alone(t) \/ QueueStep(t)

\* push and pop called by any thread at any time, as in the test
\* push_and_pop_from_multiple_threads. A use after free is undefined
\* behaviour: the run is followed up to it and no further.
NextQueue ==
    \E t \in QThreads :
        \/ ~uaf /\ push_alloc(t)
        \/ ~uaf /\ push_load(t)
        \/ ~uaf /\ push_cas(t)
        \/ ~uaf /\ push_head(t)
        \/ ~uaf /\ push_link(t)
        \/ ~uaf /\ pop_load(t)
        \/ ~uaf /\ pop_next(t)
        \/ ~uaf /\ pop_cas(t)
        \/ ~uaf /\ pop_check(t)
        \/ ~uaf /\ pop_tail(t)
        \/ ~uaf /\ pop_free(t)

RECURSIVE Chain(_, _)
\* The elements found by following next from node a, at most k nodes.
Chain(a, k) ==
    IF a = 0 \/ k = 0 THEN <<>>
    ELSE <<node_elem[a]>> \o Chain(node_next[a], k - 1)

\* ----------------------------------------------------------------------- List
\* The threads of the List's tests; each is one of the semaphore's Threads.
LThreads == 1..NUM_THREADS

\* No push_front or pop_front is in flight.
LIdle == \A t \in LThreads : pc[t] \in {"start", "done"} /\ lpc[t] = "idle"

\* List::new
InitList ==
    /\ list_head = 0
    /\ list_len = 0
    /\ list_alloc = {}
    /\ list_elem = [a \in Addrs |-> 0]
    /\ list_next = [a \in Addrs |-> 0]
    /\ lpc = [t \in LThreads |-> "idle"]
    /\ l_new_head = [t \in LThreads |-> 0]
    /\ l_current_head = [t \in LThreads |-> 0]
    /\ list_ret = [t \in LThreads |-> 0]
    /\ rpc = "idle"
    /\ r_current = 0
    /\ r_v = <<>>
    /\ r_dangling = FALSE
    /\ list_uaf = FALSE
    /\ list_pushed = 0
    /\ lifo = <<>>
    /\ list_expect = [t \in LThreads |-> 0]
    /\ replaced = [a \in Addrs |-> 0]
    /\ popcalled = FALSE
    /\ r_snap = <<>>

\* List::len and List::is_empty
len == list_len
is_empty == len = 0

\* push_front / pop_front: let permit = self.semaphore.aquire();
list_aquire(t) == lpc[t] = "idle" /\ aquire(t)

\* push_front: Box::new(Node { elem, next: AtomicPtr::new(null_mut()) }) at
\* any address the allocator has free.
push_front_alloc(t) ==
    /\ pc[t] = "locked" /\ lpc[t] = "idle"
    /\ \E a \in Addrs \ list_alloc :
         /\ list_alloc' = list_alloc \cup {a}
         /\ list_elem' = [list_elem EXCEPT ![a] = list_pushed + 1]
         /\ list_next' = [list_next EXCEPT ![a] = 0]
         /\ l_new_head' = [l_new_head EXCEPT ![t] = a]
    /\ list_pushed' = list_pushed + 1
    /\ lpc' = [lpc EXCEPT ![t] = "push_load"]
    /\ UNCHANGED <<bvars, svars, qvars, list_head, list_len, l_current_head,
                   list_ret, rpc, r_current, r_v, r_dangling, list_uaf, lifo,
                   list_expect, replaced, popcalled, r_snap>>

\* push_front: let mut current_head = self.head.load(Relaxed); (the load of
\* tail that follows reads a field nothing writes and nothing uses)
push_front_load(t) ==
    /\ lpc[t] = "push_load"
    /\ l_current_head' = [l_current_head EXCEPT ![t] = list_head]
    /\ lpc' = [lpc EXCEPT ![t] = "push_link"]
    /\ UNCHANGED <<bvars, svars, qvars, list_head, list_len, list_alloc,
                   list_elem, list_next, l_new_head, list_ret, rpc, r_current,
                   r_v, r_dangling, list_uaf, list_pushed, lifo, list_expect,
                   replaced, popcalled, r_snap>>

\* A push_front that never links its node.
HeadIsNull_Always(p) == TRUE

\* push_front: if current_head.is_null()
HeadIsNull(p) == p = 0

\* push_front: if current_head.is_null() {} else
\* { new_head.next = AtomicPtr::new(current_head) }
push_front_link(t) ==
    /\ lpc[t] = "push_link"
    /\ list_next' = IF HeadIsNull(l_current_head[t])
                      THEN list_next
                      ELSE [list_next EXCEPT ![l_new_head[t]] = l_current_head[t]]
    /\ lpc' = [lpc EXCEPT ![t] = "push_store"]
    /\ UNCHANGED <<bvars, svars, qvars, list_head, list_len, list_alloc,
                   list_elem, l_new_head, l_current_head, list_ret, rpc,
                   r_current, r_v, r_dangling, list_uaf, list_pushed, lifo,
                   list_expect, replaced, popcalled, r_snap>>

\* push_front: let x = Box::into_raw(new_head); self.head.store(x, Relaxed);
\* the LIFO sequence takes the element where the node becomes the head.
push_front_store(t) ==
    /\ lpc[t] = "push_store"
    /\ list_head' = l_new_head[t]
    /\ lifo' = <<list_elem[l_new_head[t]]>> \o lifo
    /\ replaced' = [replaced EXCEPT ![l_new_head[t]] = list_head]
    /\ lpc' = [lpc EXCEPT ![t] = "push_len"]
    /\ UNCHANGED <<bvars, svars, qvars, list_len, list_alloc, list_elem,
                   list_next, l_new_head, l_current_head, list_ret, rpc,
                   r_current, r_v, r_dangling, list_uaf, list_pushed,
                   list_expect, popcalled, r_snap>>

\* A counter that push_front leaves alone.
LenAfterPush_Same(n) == n

\* self.len.fetch_add(1, Relaxed) on the counter word
LenAfterPush(n) == U32Add(n, 1)

\* push_front: self.len.fetch_add(1, Relaxed); what follows is
\* BinarySemaphore::release(permit).
push_front_len(t) ==
    /\ lpc[t] = "push_len"
    /\ list_len' = LenAfterPush(list_len)
    /\ lpc' = [lpc EXCEPT ![t] = "idle"]
    /\ pc' = [pc EXCEPT ![t] = "drop"]
    /\ l_new_head' = [l_new_head EXCEPT ![t] = 0]
    /\ l_current_head' = [l_current_head EXCEPT ![t] = 0]
    /\ UNCHANGED <<svars, qvars, bin_state, value, spin_count, tmp, iter,
                   list_head, list_alloc, list_elem, list_next, list_ret, rpc,
                   r_current, r_v, r_dangling, list_uaf, list_pushed, lifo,
                   list_expect, replaced, popcalled, r_snap>>

\* A pop_front that returns None with the permit forgotten, not dropped.
NoneReturns_Keep(t) == EndOfRound(t)

\* pop_front: None is returned through the end of the function, where the
\* permit goes out of scope and is dropped.
NoneReturns(t) == "drop"

\* pop_front: let current_head = self.head.load(Relaxed);
\* if current_head.is_null() { None }, the permit being dropped on return.
pop_front_load(t) ==
    /\ pc[t] = "locked" /\ lpc[t] = "idle"
    /\ popcalled' = TRUE
    /\ IF list_head = 0
         THEN /\ list_ret' = [list_ret EXCEPT ![t] = 0]
              /\ list_expect' =
                    [list_expect EXCEPT ![t] = IF lifo = <<>> THEN 0 ELSE Head(lifo)]
              /\ pc' = [pc EXCEPT ![t] = NoneReturns(t)]
              /\ UNCHANGED <<lpc, l_current_head>>
         ELSE /\ l_current_head' = [l_current_head EXCEPT ![t] = list_head]
              /\ lpc' = [lpc EXCEPT ![t] = "pop_next"]
              /\ UNCHANGED <<pc, list_ret, list_expect>>
    /\ UNCHANGED <<svars, qvars, bin_state, value, spin_count, tmp, iter,
                   list_head, list_len, list_alloc, list_elem, list_next,
                   l_new_head, rpc, r_current, r_v, r_dangling, list_uaf,
                   list_pushed, lifo, replaced, r_snap>>

\* pop_front: let old_head = Box::from_raw(current_head);
\* let new_head = old_head.next.load(Relaxed);
pop_front_next(t) ==
    /\ lpc[t] = "pop_next"
    /\ l_new_head' = [l_new_head EXCEPT ![t] = list_next[l_current_head[t]]]
    /\ lpc' = [lpc EXCEPT ![t] = "pop_store"]
    /\ UNCHANGED <<bvars, svars, qvars, list_head, list_len, list_alloc,
                   list_elem, list_next, l_current_head, list_ret, rpc,
                   r_current, r_v, r_dangling, list_uaf, list_pushed, lifo,
                   list_expect, replaced, popcalled, r_snap>>

\* A pop_front that empties the list.
PopAdvance_Null(n) == 0

\* pop_front: the new head is the old head's next.
PopAdvance(n) == n

\* pop_front: self.head.store(new_head, Relaxed); the LIFO sequence gives up
\* its newest element where the head moves on.
pop_front_store(t) ==
    /\ lpc[t] = "pop_store"
    /\ list_head' = PopAdvance(l_new_head[t])
    /\ list_expect' =
          [list_expect EXCEPT ![t] = IF lifo = <<>> THEN 0 ELSE Head(lifo)]
    /\ lifo' = IF lifo = <<>> THEN lifo ELSE Tail(lifo)
    /\ l_new_head' = [l_new_head EXCEPT ![t] = 0]
    /\ lpc' = [lpc EXCEPT ![t] = "pop_len"]
    /\ UNCHANGED <<bvars, svars, qvars, list_len, list_alloc, list_elem,
                   list_next, l_current_head, list_ret, rpc, r_current, r_v,
                   r_dangling, list_uaf, list_pushed, replaced, popcalled,
                   r_snap>>

\* self.len.fetch_sub(1, Release) on the counter word
LenAfterPop(n) == U32Sub(n, 1)

\* pop_front: self.len.fetch_sub(1, Release); what follows is
\* BinarySemaphore::release(permit).
pop_front_len(t) ==
    /\ lpc[t] = "pop_len"
    /\ list_len' = LenAfterPop(list_len)
    /\ lpc' = [lpc EXCEPT ![t] = "pop_ret"]
    /\ pc' = [pc EXCEPT ![t] = "drop"]
    /\ UNCHANGED <<svars, qvars, bin_state, value, spin_count, tmp, iter,
                   list_head, list_alloc, list_elem, list_next, l_new_head,
                   l_current_head, list_ret, rpc, r_current, r_v, r_dangling,
                   list_uaf, list_pushed, lifo, list_expect, replaced,
                   popcalled, r_snap>>

\* pop_front, the permit released: Some(old_head.elem); the element is moved
\* out and old_head goes out of scope, which frees the node.
pop_front_ret(t) ==
    /\ lpc[t] = "pop_ret" /\ pc[t] \in {"start", "done"}
    /\ list_ret' = [list_ret EXCEPT ![t] = list_elem[l_current_head[t]]]
    /\ list_alloc' = list_alloc \ {l_current_head[t]}
    /\ list_elem' = [list_elem EXCEPT ![l_current_head[t]] = 0]
    /\ list_next' = [list_next EXCEPT ![l_current_head[t]] = 0]
    /\ replaced' = [replaced EXCEPT ![l_current_head[t]] = 0]
    /\ r_dangling' = (r_dangling \/ (rpc # "idle" /\ r_current = l_current_head[t]))
    /\ l_current_head' = [l_current_head EXCEPT ![t] = 0]
    /\ lpc' = [lpc EXCEPT ![t] = "idle"]
    /\ UNCHANGED <<bvars, svars, qvars, list_head, list_len, l_new_head, rpc,
                   r_current, r_v, list_uaf, list_pushed, lifo, list_expect,
                   popcalled, r_snap>>

\* Debug::fmt: let mut current = self.head.load(Relaxed); while !current.is_null()
fmt_load ==
    /\ rpc = "idle"
    /\ r_current' = list_head
    /\ r_v' = <<>>
    /\ r_snap' = IF list_head = 0 THEN <<>> ELSE lifo
    /\ r_dangling' = FALSE
    /\ rpc' = IF list_head = 0 THEN "idle" ELSE "elem"
    /\ UNCHANGED <<bvars, svars, qvars, list_head, list_len, list_alloc,
                   list_elem, list_next, lpc, l_new_head, l_current_head,
                   list_ret, list_uaf, list_pushed, lifo, list_expect,
                   replaced, popcalled>>

\* Debug::fmt: v.push(format!("{:?}", (*current).elem)); a freed node reads
\* as anything.
fmt_elem ==
    /\ rpc = "elem"
    /\ \E e \in (IF r_dangling THEN 0..MaxPush ELSE {list_elem[r_current]}) :
         r_v' = Append(r_v, e)
    /\ list_uaf' = (list_uaf \/ r_dangling)
    /\ rpc' = "next"
    /\ UNCHANGED <<bvars, svars, qvars, list_head, list_len, list_alloc,
                   list_elem, list_next, lpc, l_new_head, l_current_head,
                   list_ret, r_current, r_dangling, list_pushed, lifo,
                   list_expect, replaced, popcalled, r_snap>>

\* Debug::fmt: current = (*current).next.load(Relaxed); while !current.is_null()
\* (v is formatted and dropped when the loop ends)
fmt_next ==
    /\ rpc = "next"
    /\ \E n \in (IF r_dangling THEN 0..MaxNodes ELSE {list_next[r_current]}) :
         /\ r_current' = n
         /\ r_dangling' = (n # 0 /\ n \notin list_alloc)
         /\ rpc' = IF n = 0 THEN "idle" ELSE "elem"
         /\ r_v' = IF n = 0 THEN <<>> ELSE r_v
         /\ r_snap' = IF n = 0 THEN <<>> ELSE r_snap
    /\ list_uaf' = (list_uaf \/ r_dangling)
    /\ UNCHANGED <<bvars, svars, qvars, list_head, list_len, list_alloc,
                   list_elem, list_next, lpc, l_new_head, l_current_head,
                   list_ret, list_pushed, lifo, list_expect, replaced,
                   popcalled>>

\* One step of the semaphore's code on behalf of a push_front or pop_front.
ListPermitStep(t) ==
    \/ list_aquire(t)
    \/ lock_contended_spin(t)
    \/ lock_contended_cas(t)
    \/ lock_contended_swap(t)
    \/ lock_contended_wait(t)
    \/ SpuriousWake(t)
    \/ BinaryPermitDrop(t)
    \/ BinaryPermitWake(t)

\* One step of push_front's own code.
PushFrontStep(t) ==
    \/ push_front_alloc(t)
    \/ push_front_load(t)
    \/ push_front_link(t)
    \/ push_front_store(t)
    \/ push_front_len(t)

\* One step of pop_front's own code.
PopFrontStep(t) ==
    \/ pop_front_load(t)
    \/ pop_front_next(t)
    \/ pop_front_store(t)
    \/ pop_front_len(t)
    \/ pop_front_ret(t)

\* push_front and pop_front called by the threads at any time.
NextList ==
    \E t \in LThreads : ListPermitStep(t) \/ PushFrontStep(t) \/ PopFrontStep(t)

\* push_front called by the threads at any time while a reader formats the
\* list, as often as it likes.
NextListPushRead ==
    \/ \E t \in LThreads : ListPermitStep(t) \/ PushFrontStep(t)
    \/ fmt_load
    \/ fmt_elem
    \/ fmt_next

\* push_front and pop_front called by the threads at any time while a reader
\* formats the list. A use after free is undefined behaviour: the run is
\* followed up to it and no further.
NextListRead ==
    \/ \E t \in LThreads :
          \/ ~list_uaf /\ list_aquire(t)
          \/ ~list_uaf /\ lock_contended_spin(t)
          \/ ~list_uaf /\ lock_contended_cas(t)
          \/ ~list_uaf /\ lock_contended_swap(t)
          \/ ~list_uaf /\ lock_contended_wait(t)
          \/ ~list_uaf /\ SpuriousWake(t)
          \/ ~list_uaf /\ BinaryPermitDrop(t)
          \/ ~list_uaf /\ BinaryPermitWake(t)
          \/ ~list_uaf /\ push_front_alloc(t)
          \/ ~list_uaf /\ push_front_load(t)
          \/ ~list_uaf /\ push_front_link(t)
          \/ ~list_uaf /\ push_front_store(t)
          \/ ~list_uaf /\ push_front_len(t)
          \/ ~list_uaf /\ pop_front_load(t)
          \/ ~list_uaf /\ pop_front_next(t)
          \/ ~list_uaf /\ pop_front_store(t)
          \/ ~list_uaf /\ pop_front_len(t)
          \/ ~list_uaf /\ pop_front_ret(t)
    \/ ~list_uaf /\ fmt_load
    \/ ~list_uaf /\ fmt_elem
    \/ ~list_uaf /\ fmt_next

\* The test push_and_pop_from_multiple_threads: the first thread spawned
\* calls push_front, the second pop_front.
NextListTest ==
    \/ \E t \in LThreads : ListPermitStep(t)
    \/ PushFrontStep(1)
    \/ PopFrontStep(NUM_THREADS)

\* A call of push_front or pop_front that overlaps no other.
list_aquire_seq(t) == LIdle /\ list_aquire(t)

\* push_front and pop_front called by one thread at a time.
NextListSeq ==
    \E t \in LThreads :
        \/ list_aquire_seq(t)
        \/ PushFrontStep(t)
        \/ PopFrontStep(t)
        \/ BinaryPermitDrop(t)

RECURSIVE ListChain(_, _)
\* The elements found by following next from List node a, at most k nodes.
ListChain(a, k) ==
    IF a = 0 \/ k = 0 THEN <<>>
    ELSE <<list_elem[a]>> \o ListChain(list_next[a], k - 1)

\* ------------------------------------------------------------ specifications
\* The mutex test: NumThreads threads, Rounds iterations each.
Init == InitBin(Rounds) /\ InitSem /\ InitQueue /\ InitList
Spec == Init /\ [][NextBin]_vars

\* The BinarySemaphore's concurrency test, each thread taking and releasing
\* the permit once, under a fair scheduler: a runnable thread
\* eventually takes its next step. A spurious return of wait is possible,
\* never promised.
InitFair == InitBin(TestAquires) /\ InitSem /\ InitQueue /\ InitList
FairSpec ==
    InitFair /\ [][NextBinSem]_vars /\ \A t \in Threads : WF_vars(BinSemThread(t))

\* The counting Semaphore under any mix of calls.
SpecSem == Init /\ [][NextSem]_vars

\* The same under a fair scheduler; the calls themselves are not forced.
FairSpecSem ==
    Init /\ [][NextSem]_vars /\ \A t \in SemThreads : WF_vars(SemThread(t))

\* The Queue used by one thread at a time.
SpecQueueSeq == Init /\ [][NextQueueSeq]_vars

\* The Queue filled by all its threads at once and emptied afterwards.
SpecQueuePushThenPop == Init /\ [][NextQueuePushThenPop]_vars

\* The Queue with any number of pushes beside at most one pop.
SpecQueueOnePop == Init /\ [][NextQueueOnePop]_vars

\* The Queue used by all its threads at once.
SpecQueue == Init /\ [][NextQueue]_vars

\* The List used by one thread at a time.
SpecListSeq == Init /\ [][NextListSeq]_vars

\* The List used by all its threads at once.
SpecList == Init /\ [][NextList]_vars

\* The List under its test of one push_front beside one pop_front.
SpecListTest == InitFair /\ [][NextListTest]_vars

\* The List used by all its threads at once and read meanwhile.
SpecListRead == Init /\ [][NextListRead]_vars

\* The List filled by all its threads at once and read meanwhile.
SpecListPushRead == Init /\ [][NextListPushRead]_vars

\* The Semaphore's concurrency test under a fair scheduler: every thread
\* makes its call and runs on.
FairSpecSemN ==
    /\ Init
    /\ [][NextSemN]_vars
    /\ \A t \in SemThreads :
         WF_vars(SemNThread(t) \/ \E n \in 1..MaxPermits : aquire_n_call(t, n))

\* ---------------------------------------------------------------- claims

AllDone == \A t \in Threads : pc[t] = "done"

\* Threads blocked in aquire: parked in wait, or about to park.
Blocked == {t \in Threads : pc[t] \in {"wait", "parked"}}

\* C1: in every reachable state at most one BinaryPermit (hence at most one
\* MutexGuard) is outstanding.
C1_MutualExclusion == Cardinality({t \in Threads : Holding(t)}) <= 1

\* A guard is held while another thread is parked waiting for it.
C1_Witness ==
    \E h, w \in Threads : pc[h] = "write" /\ pc[w] = "parked"

\* C2: when NumThreads threads each lock, increment and unlock Rounds times,
\* the counter ends at NumThreads * Rounds in every interleaving.
C2_NoLostUpdate == AllDone => value = NumThreads * Rounds

\* All threads have run all their iterations and the mutex is free again.
C2_Witness == AllDone /\ value = NumThreads * Rounds /\ bin_state = Free

\* C3: a thread parked in aquire is never left behind: while it is parked the
\* state is held-busy (so the coming release will call wake_one), or a release
\* is about to call wake_one, or a woken waiter is about to mark the state
\* held-busy again; and a thread blocked in aquire goes on to obtain the permit.
C3_NoLostWakeup ==
    /\ [](\A t \in Threads :
            (pc[t] = "parked" /\ bin_state # HeldBusy)
                => \E h \in Threads : pc[h] \in {"wake", "swap"})
    /\ \A t \in Threads : (t \in Blocked) ~> Holding(t)

\* The holder has swapped the state to free and is about to wake the one
\* thread that is parked.
C3_Witness ==
    \E h, t \in Threads :
        pc[h] = "wake" /\ Blocked = {t} /\ pc[t] = "parked" /\ bin_state = Free

\* C4: under fair scheduling every thread terminates, and once all have
\* finished the state is free again (get_count() == 1).
C4_Progress ==
    /\ <>AllDone
    /\ [](AllDone => get_count = 1)

\* All threads have finished and the semaphore counts one permit again.
C4_Witness == AllDone /\ get_count = 1

RECURSIVE SumPermits(_)
\* The sum of the sizes of the Permits held by the threads of T.
SumPermits(T) ==
    IF T = {} THEN 0
    ELSE LET t == CHOOSE x \in T : TRUE IN permit[t] + SumPermits(T \ {t})

AllSemDone == \A t \in SemThreads : spc[t] = "s_done"

\* C5: the counter lies in [0, max_permits], and the counter plus the sizes
\* of all outstanding Permits equals max_permits.
C5_SemaphoreBound ==
    /\ sem_state \in 0..MaxPermits
    /\ sem_state + SumPermits(SemThreads) = MaxPermits

\* All permits are out, one taken by aquire and one by aquire_n.
C5_Witness ==
    \E t, u \in SemThreads :
        /\ via[t] = "aquire" /\ permit[t] = 1
        /\ via[u] = "aquire_n" /\ permit[u] >= 1
        /\ sem_state = 0

\* C6: threads that each call aquire_n(n), 1 <= n <= max_permits, and then
\* release all terminate under fair scheduling, and once all have finished
\* the counter equals max_permits.
C6_SemaphoreProgress ==
    /\ <>AllSemDone
    /\ [](AllSemDone => sem_get_count = MaxPermits)

\* Two threads with requests of different sizes are parked at once, so the
\* next release wakes only one of them.
C6_Witness ==
    \E t, u \in SemThreads :
        spc[t] = "n_parked" /\ spc[u] = "n_parked" /\ req[t] < req[u]

\* C7: a call of aquire() that found the counter at 0 goes on to return a
\* Permit (under fair scheduling, the other threads releasing theirs).
C7_AquireReturns ==
    \A t \in SemThreads :
        (via[t] = "aquire" /\ spc[t] \in {"a_inner", "a_wait", "a_parked"})
            ~> (spc[t] = "s_holding")

\* C8: aquire_n(n) with n > max_permits faults: the caller panics for good,
\* the counter is unchanged, no Permit is created and no other thread is
\* parked or woken.
C8_OverLargeRequestFaults ==
    [][\A t \in SemThreads :
         /\ (spc[t] = "idle" /\ spc'[t] # "idle" /\ via'[t] = "aquire_n"
                /\ req'[t] > MaxPermits)
              => /\ spc'[t] = "panicked"
                 /\ sem_state' = sem_state
                 /\ permit' = permit
                 /\ \A u \in SemThreads \ {t} : spc'[u] = spc[u]
         /\ spc[t] = "panicked" => (spc'[t] = "panicked" /\ permit'[t] = 0)]_vars

\* A thread has panicked on an over-large request while others hold permits.
C8_Witness ==
    \E t, u \in SemThreads :
        spc[t] = "panicked" /\ req[t] > MaxPermits /\ permit[u] > 0

\* C9: aquire_n(0) faults instead of returning a Permit: no thread that
\* called aquire_n(0) ever gets past the call.
C9_ZeroRequestFaults ==
    \A t \in SemThreads :
        (via[t] = "aquire_n" /\ req[t] = 0) => spc[t] = "panicked"

\* C10: used by one thread at a time the Queue is a FIFO sequence: between
\* operations the chain from head holds exactly the elements pushed and not
\* yet popped, oldest first, and every pop has returned what a FIFO sequence
\* returns (its oldest element, None when it is empty).
C10_SequentialFifo ==
    QIdle =>
        /\ Chain(head, MaxNodes + 1) = fifo
        /\ \A t \in QThreads : ret[t] = expect[t]

\* The queue was drained and refilled, and a pop has now returned the last
\* element pushed, leaving the queue empty.
C10_Witness ==
    /\ QIdle /\ refilled /\ fifo = <<>> /\ pushed = MaxPush
    /\ \E t \in QThreads : ret[t] = MaxPush

RECURSIVE Reach(_, _)
\* The addresses found by following next from node a, at most k nodes.
Reach(a, k) ==
    IF a = 0 \/ k = 0 THEN <<>>
    ELSE <<a>> \o Reach(node_next[a], k - 1)

\* C11: whenever no push or pop is in flight, head is null exactly when tail
\* is null, and otherwise following next from head ends at tail, whose next
\* is null.
C11_QuiescentStructure ==
    QIdle =>
        /\ (head = 0) <=> (tail = 0)
        /\ head # 0 =>
              LET walk == Reach(head, MaxNodes) IN
              /\ walk[Len(walk)] = tail
              /\ node_next[tail] = 0

\* The set of the elements of a sequence.
Elems(q) == {q[i] : i \in 1..Len(q)}

\* C12: no element whose push completed is lost: whenever no push or pop is
\* in flight, the elements reachable from head are exactly the elements
\* pushed and not yet returned by a pop, so pops retried on empty return
\* every one of them and then find the queue empty (head and tail null).
C12_Conservation ==
    QIdle =>
        /\ Elems(Chain(head, MaxNodes + 1)) = Elems(fifo)
        /\ fifo = <<>> => (head = 0 /\ tail = 0)

\* C13: after pushes that overlapped only each other, pops made one at a
\* time return every pushed element exactly once and never None while an
\* element is left: between operations the chain from head holds exactly
\* the elements pushed and not yet returned, each once, and no pop returned
\* None while the queue held an element.
C13_ConcurrentPushes ==
    QIdle =>
        /\ Elems(Chain(head, MaxNodes + 1)) = Elems(fifo)
        /\ Len(Chain(head, MaxNodes + 1)) = Len(fifo)
        /\ \A t \in QThreads : expect[t] # 0 => ret[t] # 0
        /\ ~uaf

\* Two pushes raced: the push called second won the exchange on tail, and
\* after both returned a pop has returned its element first while the
\* element of the push called first is still queued.
C13_Witness ==
    /\ QIdle
    /\ \E t \in QThreads : ret[t] = 2
    /\ fifo # <<>> /\ Head(fifo) = 1

\* C14: used by one thread at a time the List is a LIFO sequence: between
\* calls the chain from head holds the elements pushed and not yet popped,
\* newest first, len() is their number (pushes minus successful pops), and
\* every pop_front has returned the newest element, or None on the empty
\* list.
C14_SequentialLifo ==
    LIdle =>
        /\ ListChain(list_head, MaxNodes + 1) = lifo
        /\ len = Len(lifo)
        /\ \A t \in LThreads : list_ret[t] = list_expect[t]

\* After two pushes a pop_front has returned the second element and left
\* the first, with len() back at one.
C14_Witness ==
    /\ LIdle /\ lifo = <<1>> /\ len = 1
    /\ \E t \in LThreads : list_ret[t] = 2

\* C15: len() is the number of nodes reachable from head except while a
\* mutator is between its store of head and its update of the counter (so
\* whenever nobody holds the permit), where it is off by at most one; when
\* only push_front has been called, len() is the number of calls once they
\* have all returned, and is not 0 once any thread has returned from one.
C15_LengthConsistency ==
    LET n == Len(ListChain(list_head, MaxNodes + 1)) IN
    /\ (\A t \in LThreads : lpc[t] \notin {"push_len", "pop_len"}) => len = n
    /\ (\A t \in LThreads : ~Holding(t)) => len = n
    /\ len \in {n - 1, n, n + 1}
    /\ (~popcalled /\ LIdle) => len = list_pushed
    /\ \A t \in LThreads : (~popcalled /\ iter[t] < Rounds) => len # 0

\* Every thread has returned from one push_front, no pop_front was called,
\* and len() is the number of threads.
C15_Witness ==
    /\ ~popcalled /\ LIdle /\ len = NUM_THREADS
    /\ \A t \in LThreads : iter[t] = Rounds - 1

RECURSIVE ListReach(_, _)
\* The addresses found by following next from List node a, at most k nodes.
ListReach(a, k) ==
    IF a = 0 \/ k = 0 THEN <<>>
    ELSE <<a>> \o ListReach(list_next[a], k - 1)

\* C17: every node reachable from head has its next set to the head value
\* it replaced (null for the first), so a reader without the permit walks
\* exactly the chain that hung from the head it loaded: what it has
\* collected is the front of that chain, the node it stands on is the next
\* one, and it stops exactly at the end.
C17_NoPartialNode ==
    /\ \A a \in Elems(ListReach(list_head, MaxNodes + 1)) :
          list_next[a] = replaced[a]
    /\ rpc # "idle" =>
          /\ ~r_dangling /\ ~list_uaf
          /\ Len(r_v) <= Len(r_snap)
          /\ r_v = SubSeq(r_snap, 1, Len(r_v))
          /\ rpc = "elem" =>
                /\ Len(r_v) < Len(r_snap)
                /\ list_elem[r_current] = r_snap[Len(r_v) + 1]
          /\ rpc = "next" =>
                (list_next[r_current] = 0 <=> Len(r_v) = Len(r_snap))

\* The reader stands on the last node of a chain of two while a push_front
\* has already linked and published a third node in front of it.
C17_Witness ==
    /\ rpc = "next" /\ Len(r_v) = 2 /\ r_snap = r_v
    /\ Len(lifo) = 3

\* C16: when one thread has called push_front once and another pop_front
\* once on the empty list and both calls have returned, len() is 1.
C16_LenIsOne ==
    (\A t \in LThreads : pc[t] = "done" /\ lpc[t] = "idle") => len = 1

\* C18: whenever the state is held_busy (0) some thread is parked in wait
\* or about to park (it is in lock_contended's blocking loop, at its swap
\* or at its wait), so the wake_one of a drop that swaps out 0 always has a
\* waiter to wake.
C18_BusyMeansWaiter ==
    bin_state = HeldBusy =>
        \E t \in Threads : pc[t] \in {"swap", "wait", "parked"}

\* C19: with at most one pop in flight at any time, whatever pushes run
\* beside it, no push or pop reads or writes a node that has been freed.
C19_SinglePopperSafe == ~uaf

\* C20: after pushes that overlapped only each other, pops made one at a
\* time return the elements in the order in which the pushes' exchanges on
\* tail succeeded: between operations the chain from head is that order
\* and every pop has returned its first element; two elements pushed by
\* the same thread stand in it in the order of the two calls.
C20_ExchangeOrder ==
    /\ QIdle =>
          /\ fifo = Chain(head, MaxNodes + 1)
          /\ \A t \in QThreads : expect[t] = ret[t]
    /\ \A i, j \in 1..Len(fifo) :
          (i < j /\ owner[fifo[i]] = owner[fifo[j]]) => fifo[i] < fifo[j]

\* The push called second won the exchange on tail against the push called
\* first, whose thread then pushed a third element; the first pop has
\* returned the second element and the other two are queued in call order.
C20_Witness ==
    /\ QIdle
    /\ fifo = <<1, 3>> /\ owner[1] = owner[3]
    /\ \E t \in QThreads : ret[t] = 2 /\ expect[t] = 2

\* C21: at most one thread is between taking and releasing the List's
\* permit, every step of push_front and pop_front from the load of head to
\* the update of the counter is made by the thread that holds it, and
\* whenever no call is in flight the semaphore is free: every call, pop_front
\* on the empty list included, has released the permit before returning.
C21_Serialized ==
    /\ Cardinality({t \in LThreads : Holding(t)}) <= 1
    /\ \A t \in LThreads :
          lpc[t] \in {"push_load", "push_link", "push_store", "push_len",
                      "pop_next", "pop_store", "pop_len"} => pc[t] = "locked"
    /\ \A t \in LThreads : Holding(t) => bin_state # Free
    /\ LIdle => bin_state = Free

\* Every thread has returned from a pop_front on the empty list, each
\* having held the permit in turn, and the semaphore is free.
C21_Witness ==
    /\ LIdle /\ popcalled /\ list_pushed = 0 /\ bin_state = Free
    /\ \A t \in LThreads : iter[t] < Rounds

\* A pop whose exchange on head succeeded and which has yet to return.
Popping(t) == qpc[t] \in {"pop_check", "pop_tail", "pop_free"}

\* C22: no element is returned by two pops and head never points at a freed
\* node: no two pops have taken the same node off head, the node a pop has
\* taken is live and holds an element no pop has returned yet, and head is
\* null or the address of a live node.
C22_NoDuplication ==
    /\ \A t, u \in QThreads :
          (t # u /\ Popping(t) /\ Popping(u)) => current[t] # current[u]
    /\ \A t \in QThreads :
          Popping(t) =>
              /\ current[t] \in allocd
              /\ owner[node_elem[current[t]]] # 0
    /\ head # 0 => head \in allocd

\* C23: a reader that walks the list from head without the permit never
\* reads a node that a pop_front has freed.
C23_ReaderSafe == ~list_uaf

====
